---- MODULE Spec2Model ----
(***************************************************************************)
(* Two-stage retrieval of the notebooks                                    *)
(*   05_Semantic_Search_with_Reranking/01_LlamaIndex_Reranker_Bedrock_*    *)
(* get_retrieved_nodes(query_str, vector_top_k, reranker_top_n,            *)
(* with_reranker) runs VectorIndexRetriever.retrieve and, when asked,      *)
(* LLMRerank.postprocess_nodes (llama-index==0.8.37, the version the       *)
(* notebooks pin).                                                         *)
(*                                                                         *)
(* Scores are Python floats.  They are represented in hundredths: a        *)
(* similarity of 0.60 is 60, a relevance of 7 is 700, 7.5 is 750.          *)
(* A chunk (node) is identified by its position of insertion in the index. *)
(*                                                                         *)
(* Spec is the retrieval with the answers of the generation model left     *)
(* open, SpecDet the retrieval with a model that answers as a function of  *)
(* the prompt, IngestSpec the cells that download, trim, load and index    *)
(* the letters.                                                            *)
(***************************************************************************)
EXTENDS Integers, Sequences, FiniteSets, TLC

\* ------------------------------------------------------------------ bounds
\* number of chunks the corpus yields at most
NumChunks == 6
\* largest explicit vector_top_k / reranker_top_n tried besides the defaults
MaxTopK == 3
MaxTopN == 3
\* largest number of answer lines considered over one rerank call: an answer
\* holds at most as many lines as keep Len(initial_results) + lines within it
MaxLines == 2

\* ------------------------------------------------------- program constants
DefaultVectorTopK == 10
DefaultRerankerTopN == 3
choice_batch_size == 5

Queries == {"How has AWS evolved?", "Why is Amazon successful?"}

TopKs == (0..MaxTopK) \cup {DefaultVectorTopK}
TopNs == (0..MaxTopN) \cup {DefaultRerankerTopN}
\* sizes of the corpus tried: empty, smaller than MaxTopK, more than one batch
IndexSizes == {0, 2, NumChunks}

Min(a, b) == IF a <= b THEN a ELSE b

\* ------------------------------------------------------ embedding service
\* similarity of chunk c to the query, a pure function of (query, chunk);
\* both profiles contain ties
Similarity(q, c) ==
    IF q = "How has AWS evolved?"
    THEN (((c * 37) % 5) * 10) + 40
    ELSE (((c * c) % 7) * 10) + 20

NodeWithScore(n, s) == [node |-> n, score |-> s]

\* ------------------------------------------------------------ sorted(...)
\* sorted(xs, key=score, reverse=True): descending and stable
\* variant: the sort forgets reverse=True
RECURSIVE InsertAsc(_, _)
InsertAsc(sorted, x) ==
    IF sorted = << >> THEN << x >>
    ELSE IF Head(sorted).score <= x.score
         THEN << Head(sorted) >> \o InsertAsc(Tail(sorted), x)
         ELSE << x >> \o sorted

RECURSIVE InsertDesc(_, _)
InsertDesc(sorted, x) ==
    IF sorted = << >> THEN << x >>
    ELSE IF Head(sorted).score >= x.score
         THEN << Head(sorted) >> \o InsertDesc(Tail(sorted), x)
         ELSE << x >> \o sorted

RECURSIVE SortDesc(_)
SortDesc(xs) ==
    IF xs = << >> THEN << >>
    ELSE InsertDesc(SortDesc(SubSeq(xs, 1, Len(xs) - 1)), xs[Len(xs)])

\* variant: the slice keeps one element too many
SliceOneMore(xs, n) == SubSeq(xs, 1, Min(n + 1, Len(xs)))

\* xs[:n] for n >= 0
Slice(xs, n) == SubSeq(xs, 1, Min(n, Len(xs)))

\* ------------------------------------------------- VectorIndexRetriever
\* top-k of the index by similarity: the (similarity, id) pairs sorted by
\* descending similarity, equal similarities in the order of the index, cut
\* to similarity_top_k; a similarity_top_k of 0 is falsy and means "no limit"
TopKLimit(k, len) == IF k = 0 THEN len ELSE k

VectorRetrieve(idx, q, k) ==
    LET scored == [i \in 1..Len(idx) |-> NodeWithScore(idx[i], Similarity(q, idx[i]))]
        sorted_tups == SortDesc(scored)
    IN  Slice(sorted_tups, TopKLimit(k, Len(sorted_tups)))

\* ------------------------------------------- generation model's answers
\* One line of the raw answer, by what the parser can tell apart:
\*   "pair"    "Doc: <doc>, Relevance: <rel>" with both numbers parsable
\*   "nocomma" a line that does not split into exactly two tokens at ","
\*   "baddoc"  two tokens, the first without a parsable integer after ":"
\*   "badrel"  two tokens, document number doc, no parsable float after ":"
DocNums == ((-1)..2) \cup {choice_batch_size + 1}
Relevances == {100, 750, 1100}

AnswerLines ==
    [kind : {"pair"}, doc : DocNums, rel : Relevances]
    \cup [kind : {"nocomma", "baddoc"}, doc : {0}, rel : {0}]
    \cup [kind : {"badrel"}, doc : {1, choice_batch_size + 1}, rel : {0}]

\* the answers of at most n lines
Answers(n) == UNION {[1..m -> AnswerLines] : m \in 0..n}

\* default_parse_choice_select_answer_fn(answer, num_choices):
\* lines without exactly two tokens are skipped, int() of the document
\* number may raise, numbers above num_choices are skipped, float() of the
\* relevance may raise
RECURSIVE ParseAnswer(_, _)
ParseAnswer(answer, num_choices) ==
    IF answer = << >> THEN [ok |-> TRUE, nums |-> << >>, rels |-> << >>]
    ELSE LET line == Head(answer)
             rest == ParseAnswer(Tail(answer), num_choices)
         IN  IF line.kind = "nocomma" THEN rest
             ELSE IF line.kind = "baddoc" THEN [ok |-> FALSE, nums |-> << >>, rels |-> << >>]
             ELSE IF line.doc > num_choices THEN rest
             ELSE IF line.kind = "badrel" THEN [ok |-> FALSE, nums |-> << >>, rels |-> << >>]
             ELSE IF ~rest.ok THEN rest
             ELSE [ok |-> TRUE, nums |-> << line.doc >> \o rest.nums,
                                rels |-> << line.rel >> \o rest.rels]

\* nodes_batch[int(choice) - 1] with Python's indexing: a negative index
\* counts from the end, an index outside -len..len-1 raises IndexError
IndexInRange(choice, len) == (choice - 1 >= -len) /\ (choice - 1 <= len - 1)
PyIndex(xs, choice) ==
    IF choice - 1 >= 0 THEN xs[choice] ELSE xs[Len(xs) + choice]

\* variant: the batch is one node shorter than the stride of the loop
BatchOfShort(nodes, start) ==
    SubSeq(nodes, start + 1, Min(start + choice_batch_size - 1, Len(nodes)))

\* nodes[idx : idx + choice_batch_size] of the loop of postprocess_nodes
BatchOf(nodes, start) ==
    SubSeq(nodes, start + 1, Min(start + choice_batch_size, Len(nodes)))

\* zip(choice_nodes, relevances); "relevances or [1.0, ...]" only replaces an
\* empty list, and then choice_nodes is empty as well
BatchResults(nodes_batch, parsed) ==
    [i \in 1..Len(parsed.nums) |->
        NodeWithScore(PyIndex(nodes_batch, parsed.nums[i]).node, parsed.rels[i])]


\* ------------------------------------------------------------- the notebooks
Notebooks == {"claude", "titan"}

\* keyword arguments of VectorIndexRetriever(...) in get_retrieved_nodes
RetrieverKwargs(nb) ==
    IF nb = "claude"
    THEN [index |-> "index", similarity_top_k |-> "vector_top_k",
          choice_select_prompt |-> "CLAUDE_CHOICE_SELECT_PROMPT_TMPL"]
    ELSE [index |-> "index", similarity_top_k |-> "vector_top_k"]

\* keyword arguments of LLMRerank(...) in get_retrieved_nodes
RerankerKwargs(nb) ==
    IF nb = "claude"
    THEN [choice_batch_size |-> choice_batch_size, top_n |-> "reranker_top_n",
          service_context |-> "service_context",
          choice_select_prompt |-> "CLAUDE_CHOICE_SELECT_PROMPT_TMPL"]
    ELSE [choice_batch_size |-> choice_batch_size, top_n |-> "reranker_top_n",
          service_context |-> "service_context"]

\* VectorIndexRetriever.__init__ (llama-index==0.8.37) takes **kwargs and
\* keeps kwargs.get("vector_store_kwargs", {}) of them: a prompt passed to
\* it is dropped
RetrieverTemplate(kwargs) ==
    IF "vector_store_kwargs" \in DOMAIN kwargs THEN "vector_store_kwargs" ELSE "none"

\* the reranker sends the default template whatever it was constructed with
RerankTemplateDefault(kwargs) == "DEFAULT_CHOICE_SELECT_PROMPT"

\* LLMRerank.__init__ (llama-index==0.8.37):
\* self._choice_select_prompt = choice_select_prompt or DEFAULT_CHOICE_SELECT_PROMPT
RerankTemplate(kwargs) ==
    IF "choice_select_prompt" \in DOMAIN kwargs
    THEN kwargs.choice_select_prompt ELSE "DEFAULT_CHOICE_SELECT_PROMPT"

\* ---------------------------------------------------------------- ingestion
\* pages a downloaded letter has at most
MaxPages == 7
\* times the trimming cell is run at most
MaxTrimRuns == 2

\* a file name is kept as the pieces str.replace works on
filenames ==
    << << "AMZN-2022-Shareholder-Letter", ".pdf" >>,
       << "AMZN-2021-Shareholder-Letter", ".pdf" >>,
       << "AMZN-2020-Shareholder-Letter", ".pdf" >>,
       << "AMZN-2019-Shareholder-Letter", ".pdf" >> >>

\* metadata = [dict(year=2022, source=filenames[0]), ...]
metadata ==
    << [year |-> 2022, source |-> filenames[1]],
       [year |-> 2021, source |-> filenames[2]],
       [year |-> 2020, source |-> filenames[3]],
       [year |-> 2019, source |-> filenames[4]] >>

\* filename.replace(".pdf", "")
RECURSIVE Replace(_, _)
Replace(name, old) ==
    IF name = << >> THEN << >>
    ELSE IF Head(name) = old THEN Replace(Tail(name), old)
    ELSE << Head(name) >> \o Replace(Tail(name), old)

\* identifiers of Document objects: the one the notebook assigns, and the
\* random one a Document gets at construction (n tells them apart)
NamedId(name) == [kind |-> "name", name |-> name, n |-> 0]
AutoId(n) == [kind |-> "uuid", name |-> << >>, n |-> n]

Max(a, b) == IF a >= b THEN a ELSE b

\* page counts of the letters that are downloaded
PageCounts == {1, 4, MaxPages}

\* a file written at position f of a list of files
Put(seq, f, v) == IF f <= Len(seq) THEN [seq EXCEPT ![f] = v] ELSE Append(seq, v)

\* another file of ./data, not one of filenames: none, or a file with an
\* extension and pages
NoFile == [present |-> FALSE, ext |-> "", pages |-> << >>]
Extensions == {".pdf", ".txt"}

\* glob.glob(data_root + '*.pdf')
MatchesGlob(file) == file.present /\ file.ext = ".pdf"

\* embed_model = LangchainEmbedding(BedrockEmbeddings(model_id=...)), the one
\* embedding model of service_context
embed_model == "amazon.titan-embed-text-v1"

\* retriever = VectorIndexRetriever(index=index, ...): the query is embedded
\* by the embedding model of the service_context the index was built with
QueryEmbedModel == embed_model

\* for pagenum in range(len(pdf_reader.pages)-2): one page too many is kept
TrimPagesTwo(pages) == SubSeq(pages, 1, Max(0, Len(pages) - 2))

\* for pagenum in range(len(pdf_reader.pages)-3): pdf_writer.add_page(...)
TrimPages(pages) == SubSeq(pages, 1, Max(0, Len(pages) - 3))

\* PDFReader.load_data (llama-index==0.8.37): one Document per page, each with
\* a random id and the metadata page_label and file_name
LoadData(f, pages, made) ==
    [i \in 1..Len(pages) |->
        [doc_id |-> AutoId(made + i), file |-> f, page |-> pages[i],
         metadata |-> [page_label |-> i, file_name |-> filenames[f]]]]

\* the text of a page as the sentence splitter sees it: sentences with their
\* length in tokens and in characters
Sentence(t) == [tokens |-> t, chars |-> 4 * t]
PageText(f, p) ==
    CASE (f + p) % 3 = 0 -> << Sentence(300), Sentence(15), Sentence(250) >>
      [] (f + p) % 3 = 1 -> << Sentence(300) >>
      [] OTHER -> << Sentence(250), Sentence(300), Sentence(200) >>

\* ServiceContext.from_defaults(..., chunk_size=512): tokens; the overlap is
\* left at the default of the library, in tokens too
chunk_size == 512
chunk_overlap == 20

\* what the notebooks' text announces: 1000 character chunks, with a 100
\* character overlap
DocumentedChunkChars == 1000
DocumentedOverlapChars == 100

RECURSIVE SumTokens(_, _, _)
SumTokens(splits, a, b) ==
    IF a > b THEN 0 ELSE splits[a].tokens + SumTokens(splits, a + 1, b)

RECURSIVE SumChars(_, _, _)
SumChars(splits, a, b) ==
    IF a > b THEN 0 ELSE splits[a].chars + SumChars(splits, a + 1, b)

\* sentences of the chunk first..last that open the next chunk: trailing
\* whole sentences as long as they fit in chunk_overlap tokens, or none
\* when the splitter carries nothing over
RECURSIVE Carried(_, _, _, _)
Carried(splits, first, last, carry) ==
    IF ~carry \/ last < first THEN 0
    ELSE LET k == Carried(splits, first + 1, last, carry)
         IN  IF k = last - first
                /\ SumTokens(splits, first, last) <= chunk_overlap
             THEN k + 1 ELSE k

\* SentenceSplitter._merge (llama-index==0.8.37): sentences are added to the
\* current chunk while it stays within chunk_size tokens; a chunk is the run
\* of sentences first..last of the page
RECURSIVE Merge(_, _, _, _, _)
Merge(splits, i, first, fresh, carry) ==
    IF i > Len(splits)
    THEN IF first < i THEN << [first |-> first, last |-> i - 1] >> ELSE << >>
    ELSE IF ~fresh /\ SumTokens(splits, first, i - 1) + splits[i].tokens > chunk_size
    THEN << [first |-> first, last |-> i - 1] >>
         \o Merge(splits, i, i - Carried(splits, first, i - 1, carry), TRUE, carry)
    ELSE Merge(splits, i + 1, first, FALSE, carry)

\* get_nodes_from_documents: the chunks of one Document; a chunk inherits
\* the metadata of its Document and refers to it
NodesOfDocument(d, doc, carry) ==
    LET text == PageText(doc.file, doc.page)
        runs == Merge(text, 1, 1, TRUE, carry)
    IN  [k \in 1..Len(runs) |->
            [doc |-> d, ref_doc_id |-> doc.doc_id,
             first |-> runs[k].first, last |-> runs[k].last,
             chars |-> SumChars(text, runs[k].first, runs[k].last),
             metadata |-> doc.metadata]]

\* nodes get a random identifier when they are made: the nodes made after
\* base others are told apart from them and from each other
WithIds(ns, base) == [i \in 1..Len(ns) |-> [node_id |-> base + i] @@ ns[i]]

\* the index stores each node with the embedding of its text
Embedded(ns) == [i \in 1..Len(ns) |-> [embedded_by |-> embed_model] @@ ns[i]]

RECURSIVE GetNodesFromDocuments(_, _, _)
GetNodesFromDocuments(ds, d, carry) ==
    IF d > Len(ds) THEN << >>
    ELSE NodesOfDocument(d, ds[d], carry) \o GetNodesFromDocuments(ds, d + 1, carry)

\* ------------------------------------------------ generation at temperature 0
\* model_kwargs = {"temperature": 0, ...}: the answer of the generation model
\* is a function of the prompt, that is of the query and the batch.  Models
\* stands for the functions the hosted model may implement.
Models == {"first_two", "by_content", "nothing", "repeat", "beyond", "bad_score"}

Pair(d, r) == [kind |-> "pair", doc |-> d, rel |-> r]

LLMAnswer(m, q, nodes_batch) ==
    CASE m = "first_two" ->
             IF Len(nodes_batch) >= 2
             THEN << Pair(2, 100), Pair(1, 750) >> ELSE << Pair(1, 750) >>
      [] m = "by_content" ->
             IF q = "How has AWS evolved?"
             THEN << Pair(1, 100 * (1 + (nodes_batch[1].node % 9))) >>
             ELSE << Pair(Len(nodes_batch), 100 * Len(nodes_batch)),
                     [kind |-> "nocomma", doc |-> 0, rel |-> 0] >>
      [] m = "repeat" -> << Pair(1, 1100), Pair(0, 1100) >>
      [] m = "beyond" -> << Pair(1, 700), Pair(Len(nodes_batch) + 1, 900) >>
      [] m = "bad_score" ->
             << Pair(1, 700), [kind |-> "badrel", doc |-> 1, rel |-> 0] >>
      [] OTHER -> << >>

\* the call a later call is compared with (none yet when set is FALSE), and
\* what was called since
NoCall ==
    [set |-> FALSE, args |-> << "", 0, 0, FALSE >>, result |-> << >>,
     repeated |-> FALSE, other |-> FALSE]

NoteCall(r, a) ==
    IF ~r.set THEN r
    ELSE IF a = r.args THEN [r EXCEPT !.repeated = TRUE]
    ELSE IF ~r.repeated THEN [r EXCEPT !.other = TRUE]
    ELSE r

VARIABLES
    index,            \* chunks of the vector index, in insertion order
    pc,               \* "ingest", "idle", "retrieve", "embedding", "rerank",
                      \* "generating", "returned", "failed"
    query_str, vector_top_k, reranker_top_n, with_reranker,   \* arguments
    candidates,       \* what retriever.retrieve returned in this call
    retrieved_nodes,  \* the variable get_retrieved_nodes returns
    batch_start,      \* loop variable of postprocess_nodes (range(0, len, 5))
    initial_results,  \* accumulator of postprocess_nodes
    batches,          \* node batches sent to the generation model, in order
    embed_requests,   \* embedding requests issued in this call
    llm_requests,     \* generation requests issued in this call
    outstanding,      \* requests issued and not yet answered
    error,            \* exception that ended the call, "none" otherwise
    stage,            \* ingestion: "download", "trim", "load", "index", "done",
                      \* "failed"
    fetched,          \* number of pages of each file as it was downloaded
    files,            \* pages now in each file of ./data (original page numbers)
    trim_runs,        \* times the trimming cell was run
    docs,             \* the list docs of the notebook
    loaded,           \* files the loading loop has been through
    chunks,           \* nodes of the index, with the Document they come from
    dl_idx,           \* files the download loop of this run has stored
    requests,         \* files urlretrieve was called for in this run
    trims,            \* trim runs each file went through since its download
    other_file,       \* another file of ./data
    ingest_error,     \* exception that ended an ingestion cell, or "none"
    nodes,            \* the list nodes of the notebook (second chunking pass)
    docstore,         \* storage_context.docstore
    prompt_tmpl,      \* template of the generation requests of this call
    notebook,         \* the notebook that is run: "claude" or "titan"
    llm,              \* the function the generation model implements, "free"
                      \* when its answers are left open
    ref               \* an earlier call that returned, for comparison

query_vars == << index, pc, query_str, vector_top_k, reranker_top_n, with_reranker,
                 candidates, retrieved_nodes, batch_start, initial_results, batches,
           embed_requests, llm_requests, outstanding, error >>

ingest_vars == << stage, fetched, files, trim_runs, docs, loaded, chunks,
                  dl_idx, requests, trims, other_file, ingest_error, nodes,
                  docstore >>

env_vars == << llm, notebook >>

vars == << query_vars, ingest_vars, prompt_tmpl, env_vars, ref >>

args == << query_str, vector_top_k, reranker_top_n, with_reranker >>

InitState ==
    /\ index = << >>
    /\ pc = "ingest"
    /\ query_str = "" /\ vector_top_k = DefaultVectorTopK
    /\ reranker_top_n = DefaultRerankerTopN /\ with_reranker = FALSE
    /\ candidates = << >> /\ retrieved_nodes = << >>
    /\ batch_start = 0 /\ initial_results = << >> /\ batches = << >>
    /\ embed_requests = 0 /\ llm_requests = 0 /\ outstanding = 0
    /\ error = "none"
    /\ stage = "download" /\ fetched = << >> /\ files = << >>
    /\ trim_runs = 0 /\ docs = << >> /\ loaded = 0 /\ chunks = << >>
    /\ dl_idx = 0 /\ requests = << >> /\ trims = << >>
    /\ other_file = NoFile /\ ingest_error = "none"
    /\ nodes = << >> /\ docstore = << >>
    /\ ref = NoCall
    /\ prompt_tmpl = "none"

\* Spec follows the Claude notebook; the Titan notebook differs from it in the
\* template of the reranker only
Init == InitState /\ llm = "free" /\ notebook = "claude"

\* index = VectorStoreIndex.from_documents(docs, ...): n chunks
BuildIndex(n) ==
    /\ pc = "ingest"
    /\ index' = [i \in 1..n |-> i]
    /\ pc' = "idle"
    /\ UNCHANGED << args, candidates, retrieved_nodes, batch_start, initial_results,
                    batches, embed_requests, llm_requests, outstanding, error >>
    /\ UNCHANGED << ingest_vars, env_vars, ref >>
    /\ UNCHANGED prompt_tmpl

\* entry of get_retrieved_nodes, called from a notebook cell
Call(q, k, n, wr) ==
    /\ pc = "idle"
    /\ query_str' = q /\ vector_top_k' = k
    /\ reranker_top_n' = n /\ with_reranker' = wr
    /\ pc' = "retrieve"
    /\ UNCHANGED << index, candidates, retrieved_nodes, batch_start, initial_results,
                    batches, embed_requests, llm_requests, outstanding, error >>
    /\ ref' = NoteCall(ref, << q, k, n, wr >>)
    /\ UNCHANGED << ingest_vars, env_vars >>
    /\ UNCHANGED prompt_tmpl

\* the results of a call stay in the accumulator for the next call
NextCellKeeps ==
    /\ pc \in {"returned", "failed"}
    /\ pc' = "idle"
    /\ candidates' = << >> /\ retrieved_nodes' = << >>
    /\ batch_start' = 0 /\ batches' = << >>
    /\ embed_requests' = 0 /\ llm_requests' = 0
    /\ error' = "none"
    /\ UNCHANGED << index, args, outstanding, initial_results >>
    /\ UNCHANGED << ingest_vars, env_vars, ref >>
    /\ prompt_tmpl' = "none"

\* the cell that made the call is over: the frame of the call is gone and
\* the notebook is ready to run another cell
NextCell ==
    /\ pc \in {"returned", "failed"}
    /\ pc' = "idle"
    /\ candidates' = << >> /\ retrieved_nodes' = << >>
    /\ batch_start' = 0 /\ initial_results' = << >> /\ batches' = << >>
    /\ embed_requests' = 0 /\ llm_requests' = 0
    /\ error' = "none"
    /\ UNCHANGED << index, args, outstanding >>
    /\ UNCHANGED << ingest_vars, env_vars, ref >>
    /\ prompt_tmpl' = "none"

\* retriever.retrieve(query_bundle) sends the query to the embedding service
\* and blocks
IssueEmbedding ==
    /\ pc = "retrieve"
    /\ embed_requests' = embed_requests + 1
    /\ outstanding' = outstanding + 1
    /\ pc' = "embedding"
    /\ UNCHANGED << index, args, candidates, retrieved_nodes, batch_start,
                    initial_results, batches, llm_requests, error >>
    /\ UNCHANGED << ingest_vars, env_vars, ref >>
    /\ UNCHANGED prompt_tmpl

\* the chunks that are retrieved are taken out of the index
RetrieveConsumes ==
    /\ pc = "embedding"
    /\ outstanding' = outstanding - 1
    /\ candidates' = VectorRetrieve(index, query_str, vector_top_k)
    /\ retrieved_nodes' = candidates'
    /\ index' = SelectSeq(index, LAMBDA c :
                   \A i \in 1..Len(candidates') : candidates'[i].node # c)
    /\ pc' = IF with_reranker THEN "rerank" ELSE "returned"
    /\ UNCHANGED << args, batch_start, initial_results, batches,
                    embed_requests, llm_requests, error >>
    /\ UNCHANGED << ingest_vars, env_vars, ref >>
    /\ UNCHANGED prompt_tmpl

\* the reranker is run whatever with_reranker says
RetrieveThenRerank ==
    /\ pc = "embedding"
    /\ outstanding' = outstanding - 1
    /\ candidates' = VectorRetrieve(index, query_str, vector_top_k)
    /\ retrieved_nodes' = candidates'
    /\ pc' = "rerank"
    /\ UNCHANGED << index, args, batch_start, initial_results, batches,
                    embed_requests, llm_requests, error >>
    /\ UNCHANGED << ingest_vars, env_vars, ref >>
    /\ UNCHANGED prompt_tmpl

\* retrieved_nodes = retriever.retrieve(query_bundle): the embedding has
\* arrived and the top-k of the index is taken
Retrieve ==
    /\ pc = "embedding"
    /\ outstanding' = outstanding - 1
    /\ candidates' = VectorRetrieve(index, query_str, vector_top_k)
    /\ retrieved_nodes' = candidates'
    /\ pc' = IF with_reranker THEN "rerank" ELSE "returned"
    /\ UNCHANGED << index, args, batch_start, initial_results, batches,
                    embed_requests, llm_requests, error >>
    /\ UNCHANGED << ingest_vars, env_vars, ref >>
    /\ UNCHANGED prompt_tmpl

\* a failed embedding request is sent again
RetrieveRetries ==
    /\ pc = "embedding"
    /\ outstanding' = outstanding - 1
    /\ pc' = "retrieve"
    /\ UNCHANGED << index, args, candidates, retrieved_nodes, batch_start,
                    initial_results, batches, embed_requests, llm_requests, error >>
    /\ UNCHANGED << ingest_vars, env_vars, ref >>
    /\ UNCHANGED prompt_tmpl

\* the embedding request of retriever.retrieve fails
RetrieveFails ==
    /\ pc = "embedding"
    /\ outstanding' = outstanding - 1
    /\ pc' = "failed" /\ error' = "ServiceError"
    /\ UNCHANGED << index, args, candidates, retrieved_nodes, batch_start,
                    initial_results, batches, embed_requests, llm_requests >>
    /\ UNCHANGED << ingest_vars, env_vars, ref >>
    /\ UNCHANGED prompt_tmpl

\* a request is sent for the batch that starts at len(nodes) too
IssueGenerationOnEmpty ==
    /\ pc = "rerank"
    /\ batch_start <= Len(candidates)
    /\ llm_requests' = llm_requests + 1
    /\ outstanding' = outstanding + 1
    /\ batches' = Append(batches, BatchOf(candidates, batch_start))
    /\ pc' = "generating"
    /\ UNCHANGED << index, args, candidates, retrieved_nodes, batch_start,
                    initial_results, embed_requests, error >>
    /\ UNCHANGED << ingest_vars, env_vars, ref >>
    /\ prompt_tmpl' = RerankTemplate(RerankerKwargs(notebook))

\* the requests of the batches are sent without waiting for the answers
IssueGenerationAhead ==
    /\ pc \in {"rerank", "generating"}
    /\ choice_batch_size * llm_requests < Len(candidates)
    /\ llm_requests' = llm_requests + 1
    /\ outstanding' = outstanding + 1
    /\ batches' = Append(batches,
                         BatchOf(candidates, choice_batch_size * llm_requests))
    /\ pc' = "generating"
    /\ UNCHANGED << index, args, candidates, retrieved_nodes, batch_start,
                    initial_results, embed_requests, error >>
    /\ UNCHANGED << ingest_vars, env_vars, ref >>
    /\ prompt_tmpl' = RerankTemplate(RerankerKwargs(notebook))

\* one iteration of "for idx in range(0, len(nodes), choice_batch_size)"
\* starts: the batch is formatted into the prompt and sent to the generation
\* model, and the call blocks
IssueGeneration ==
    /\ pc = "rerank"
    /\ batch_start < Len(candidates)
    /\ llm_requests' = llm_requests + 1
    /\ outstanding' = outstanding + 1
    /\ batches' = Append(batches, BatchOf(candidates, batch_start))
    /\ pc' = "generating"
    /\ UNCHANGED << index, args, candidates, retrieved_nodes, batch_start,
                    initial_results, embed_requests, error >>
    /\ UNCHANGED << ingest_vars, env_vars, ref >>
    /\ prompt_tmpl' = RerankTemplate(RerankerKwargs(notebook))

\* the answer of the generation model has arrived: it is parsed and turned
\* into results
RerankBatch(answer) ==
    /\ pc = "generating"
    /\ outstanding' = outstanding - 1
    /\ LET nodes_batch == BatchOf(candidates, batch_start)
           parsed == ParseAnswer(answer, Len(nodes_batch))
       IN  IF ~parsed.ok
           THEN /\ pc' = "failed" /\ error' = "ValueError"
                /\ UNCHANGED << initial_results, batch_start >>
           ELSE IF \E i \in 1..Len(parsed.nums) :
                      ~IndexInRange(parsed.nums[i], Len(nodes_batch))
           THEN /\ pc' = "failed" /\ error' = "IndexError"
                /\ UNCHANGED << initial_results, batch_start >>
           ELSE /\ initial_results' =
                       initial_results \o BatchResults(nodes_batch, parsed)
                /\ batch_start' = batch_start + choice_batch_size
                /\ pc' = "rerank"
                /\ UNCHANGED error
    /\ UNCHANGED << index, args, candidates, retrieved_nodes, batches,
                    embed_requests, llm_requests >>
    /\ UNCHANGED << ingest_vars, env_vars, ref >>
    /\ UNCHANGED prompt_tmpl

\* a failed generation request is noted and the loop goes on with the next
\* batch
RerankBatchSkips ==
    /\ pc = "generating"
    /\ outstanding' = outstanding - 1
    /\ pc' = "rerank" /\ error' = "ServiceError"
    /\ batch_start' = batch_start + choice_batch_size
    /\ UNCHANGED << index, args, candidates, retrieved_nodes,
                    initial_results, batches, embed_requests, llm_requests >>
    /\ UNCHANGED << ingest_vars, env_vars, ref >>
    /\ UNCHANGED prompt_tmpl

\* the generation request of a batch fails
RerankBatchFails ==
    /\ pc = "generating"
    /\ outstanding' = outstanding - 1
    /\ pc' = "failed" /\ error' = "ServiceError"
    /\ UNCHANGED << index, args, candidates, retrieved_nodes, batch_start,
                    initial_results, batches, embed_requests, llm_requests >>
    /\ UNCHANGED << ingest_vars, env_vars, ref >>
    /\ UNCHANGED prompt_tmpl

\* return sorted(initial_results, key=score, reverse=True)[:top_n]
RerankReturn ==
    /\ pc = "rerank"
    /\ batch_start >= Len(candidates)
    /\ retrieved_nodes' = Slice(SortDesc(initial_results), reranker_top_n)
    /\ pc' = "returned"
    /\ UNCHANGED << index, args, candidates, batch_start, initial_results,
                    batches, embed_requests, llm_requests, outstanding, error >>
    /\ UNCHANGED << ingest_vars, env_vars, ref >>
    /\ UNCHANGED prompt_tmpl

Next ==
    \/ \E n \in IndexSizes : BuildIndex(n)
    \/ \E q \in Queries, k \in TopKs, n \in TopNs, wr \in BOOLEAN : Call(q, k, n, wr)
    \/ IssueEmbedding
    \/ Retrieve
    \/ RetrieveFails
    \/ IssueGeneration
    \/ \E answer \in Answers(MaxLines - Len(initial_results)) : RerankBatch(answer)
    \/ RerankBatchFails
    \/ RerankReturn
    \/ NextCell

Spec == Init /\ [][Next]_vars

\* ------------------------------------------------------------- properties
\* ---------------------------------------------------------------- ingestion
\* a file that is not one of the letters lies in ./data before the download
OtherFile(ext, n) ==
    /\ stage = "download" /\ dl_idx = 0
    /\ ~other_file.present
    /\ other_file' = [present |-> TRUE, ext |-> ext, pages |-> [i \in 1..n |-> i]]
    /\ UNCHANGED << query_vars, prompt_tmpl, env_vars, ref >>
    /\ UNCHANGED << stage, fetched, files, trim_runs, docs, loaded, chunks,
                    dl_idx, requests, trims, ingest_error, nodes, docstore >>

\* a failed download is passed over and the loop goes on with the next file
DownloadSkips(partial) ==
    /\ stage = "download"
    /\ dl_idx < Len(filenames)
    /\ requests' = Append(requests, dl_idx + 1)
    /\ dl_idx' = dl_idx + 1
    /\ fetched' = Put(fetched, dl_idx + 1, 0)
    /\ files' = Put(files, dl_idx + 1, << >>)
    /\ trims' = Put(trims, dl_idx + 1, 0)
    /\ stage' = IF dl_idx' = Len(filenames) THEN "trim" ELSE stage
    /\ UNCHANGED << query_vars, prompt_tmpl, env_vars, ref >>
    /\ UNCHANGED << trim_runs, docs, loaded, chunks, other_file, ingest_error,
                    nodes, docstore >>

\* urlretrieve raises in an iteration of the download loop: the cell ends
\* with the error.  When the transfer had begun (partial) the file under
\* download holds nothing readable, otherwise it is as it was.
DownloadFails(partial) ==
    /\ stage = "download"
    /\ dl_idx < Len(filenames)
    /\ requests' = Append(requests, dl_idx + 1)
    /\ stage' = "failed" /\ ingest_error' = "DownloadError"
    /\ IF partial
       THEN /\ fetched' = Put(fetched, dl_idx + 1, 0)
            /\ files' = Put(files, dl_idx + 1, << >>)
            /\ trims' = Put(trims, dl_idx + 1, 0)
       ELSE UNCHANGED << fetched, files, trims >>
    /\ UNCHANGED << query_vars, prompt_tmpl, env_vars, ref >>
    /\ UNCHANGED << trim_runs, docs, loaded, chunks, dl_idx, other_file,
                    nodes, docstore >>

\* one iteration of "for idx, url in enumerate(urls)": urlretrieve stores a
\* letter of n pages under filenames[idx]
DownloadFile(n) ==
    /\ stage = "download"
    /\ dl_idx < Len(filenames)
    /\ requests' = Append(requests, dl_idx + 1)
    /\ dl_idx' = dl_idx + 1
    /\ fetched' = Put(fetched, dl_idx + 1, n)
    /\ files' = Put(files, dl_idx + 1, [i \in 1..n |-> i])
    /\ trims' = Put(trims, dl_idx + 1, 0)
    /\ stage' = IF dl_idx' = Len(filenames) THEN "trim" ELSE stage
    /\ UNCHANGED << query_vars, prompt_tmpl, env_vars, ref >>
    /\ UNCHANGED << trim_runs, docs, loaded, chunks, other_file, ingest_error,
                    nodes, docstore >>

\* the download cell is run again, after the trimming cell or after a
\* failed download
DownloadAgain ==
    /\ \/ stage = "trim" /\ trim_runs >= 1
       \/ stage = "failed" /\ ingest_error = "DownloadError"
    /\ stage' = "download" /\ ingest_error' = "none"
    /\ dl_idx' = 0 /\ requests' = << >> /\ trim_runs' = 0
    /\ UNCHANGED << query_vars, prompt_tmpl, env_vars, ref >>
    /\ UNCHANGED << fetched, files, docs, loaded, chunks, trims, other_file,
                    nodes, docstore >>

\* the trimming cell rewrites the letters only
TrimLetters ==
    /\ stage = "trim"
    /\ trim_runs < MaxTrimRuns
    /\ files' = [f \in 1..Len(files) |-> TrimPages(files[f])]
    /\ trims' = [f \in 1..Len(trims) |-> trims[f] + 1]
    /\ trim_runs' = trim_runs + 1
    /\ UNCHANGED << query_vars, prompt_tmpl, env_vars, ref >>
    /\ UNCHANGED << stage, fetched, docs, loaded, chunks, dl_idx, requests,
                    other_file, ingest_error, nodes, docstore >>

\* the trimming cell: every PDF of ./data is rewritten without its last
\* three pages
Trim ==
    /\ stage = "trim"
    /\ trim_runs < MaxTrimRuns
    /\ files' = [f \in 1..Len(files) |-> TrimPages(files[f])]
    /\ trims' = [f \in 1..Len(trims) |-> trims[f] + 1]
    /\ other_file' = IF MatchesGlob(other_file)
                     THEN [other_file EXCEPT !.pages = TrimPages(@)]
                     ELSE other_file
    /\ trim_runs' = trim_runs + 1
    /\ UNCHANGED << query_vars, prompt_tmpl, env_vars, ref >>
    /\ UNCHANGED << stage, fetched, docs, loaded, chunks, dl_idx, requests,
                    ingest_error, nodes, docstore >>

\* the loading cell is run on the files as they were downloaded
StartLoadingUntrimmed ==
    /\ stage = "trim"
    /\ stage' = "load"
    /\ docs' = << >> /\ loaded' = 0
    /\ UNCHANGED << query_vars, prompt_tmpl, env_vars, ref >>
    /\ UNCHANGED << fetched, files, trim_runs, chunks, dl_idx, requests, trims,
                    other_file, ingest_error, nodes, docstore >>

\* the trimming cell has been run and the notebook moves on to "docs = []"
StartLoading ==
    /\ stage = "trim"
    /\ trim_runs >= 1
    /\ stage' = "load"
    /\ docs' = << >> /\ loaded' = 0
    /\ UNCHANGED << query_vars, prompt_tmpl, env_vars, ref >>
    /\ UNCHANGED << fetched, files, trim_runs, chunks, dl_idx, requests, trims,
                    other_file, ingest_error, nodes, docstore >>

\* one iteration of "for filename in filenames": load_data, doc[0].doc_id =
\* filename.replace(".pdf", ""), docs.extend(doc); doc[0] raises IndexError
\* when the file has no page
LoadFile ==
    /\ stage = "load"
    /\ loaded < Len(filenames)
    /\ LET f == loaded + 1
           doc == LoadData(f, files[f], Len(docs))
       IN  IF doc = << >>
           THEN /\ stage' = "failed" /\ ingest_error' = "IndexError"
                /\ UNCHANGED << docs, loaded >>
           ELSE /\ docs' = docs \o [doc EXCEPT
                           ![1].doc_id = NamedId(Replace(filenames[f], ".pdf"))]
                /\ loaded' = f
                /\ stage' = IF f = Len(filenames) THEN "index" ELSE stage
                /\ UNCHANGED ingest_error
    /\ UNCHANGED << query_vars, prompt_tmpl, env_vars, ref >>
    /\ UNCHANGED << fetched, files, trim_runs, chunks, dl_idx, requests, trims,
                    other_file, nodes, docstore >>

\* index = VectorStoreIndex.from_documents(docs, service_context=...): the
\* documents are split into nodes and the nodes are embedded and stored
IndexDocuments(carry) ==
    /\ stage = "index"
    /\ pc = "ingest"
    /\ chunks' = Embedded(WithIds(GetNodesFromDocuments(docs, 1, carry), 0))
    /\ index' = [i \in 1..Len(chunks') |-> i]
    /\ pc' = "idle"
    /\ stage' = "done"
    /\ UNCHANGED << args, candidates, retrieved_nodes, batch_start, initial_results,
                    batches, embed_requests, llm_requests, outstanding, error >>
    /\ UNCHANGED << prompt_tmpl, env_vars, ref >>
    /\ UNCHANGED << fetched, files, trim_runs, docs, loaded, dl_idx, requests,
                    trims, other_file, ingest_error, nodes, docstore >>

\* the nodes of the second pass are put into the index
SecondPassIntoIndex(carry) ==
    /\ stage = "done" /\ pc = "idle"
    /\ nodes = << >>
    /\ nodes' = WithIds(GetNodesFromDocuments(docs, 1, carry), Len(chunks))
    /\ docstore' = nodes'
    /\ chunks' = chunks \o Embedded(nodes')
    /\ index' = [i \in 1..Len(chunks') |-> i]
    /\ UNCHANGED << pc, args, candidates, retrieved_nodes, batch_start,
                    initial_results, batches, embed_requests, llm_requests,
                    outstanding, error >>
    /\ UNCHANGED << prompt_tmpl, env_vars, ref >>
    /\ UNCHANGED << stage, fetched, files, trim_runs, docs, loaded, dl_idx,
                    requests, trims, other_file, ingest_error >>

\* nodes = service_context.node_parser.get_nodes_from_documents(docs);
\* storage_context = StorageContext.from_defaults();
\* storage_context.docstore.add_documents(nodes): new nodes in a new docstore
SecondPass(carry) ==
    /\ stage = "done" /\ pc = "idle"
    /\ nodes = << >>
    /\ nodes' = WithIds(GetNodesFromDocuments(docs, 1, carry), Len(chunks))
    /\ docstore' = nodes'
    /\ UNCHANGED << query_vars, prompt_tmpl, env_vars, ref >>
    /\ UNCHANGED << stage, fetched, files, trim_runs, docs, loaded, chunks,
                    dl_idx, requests, trims, other_file, ingest_error >>

\* a call that returned is kept for comparison with later calls
Remember ==
    /\ pc = "returned"
    /\ ~ref.set
    /\ nodes = << >>
    /\ ref' = [NoCall EXCEPT !.set = TRUE, !.args = args,
                             !.result = retrieved_nodes]
    /\ UNCHANGED << query_vars, ingest_vars, prompt_tmpl, env_vars >>

\* a value of vector_top_k the notebooks call with
IngestTopK == 3

IngestNext ==
    \/ \E ext \in Extensions : OtherFile(ext, MaxPages)
    \/ \E n \in PageCounts : DownloadFile(n)
    \/ \E partial \in BOOLEAN : DownloadFails(partial)
    \/ DownloadAgain
    \/ Trim
    \/ StartLoading
    \/ LoadFile
    \/ \E carry \in BOOLEAN : IndexDocuments(carry)
    \/ \E carry \in BOOLEAN : SecondPass(carry)
    \/ \E q \in Queries : Call(q, IngestTopK, DefaultRerankerTopN, FALSE)
    \/ IssueEmbedding
    \/ Retrieve
    \/ Remember
    \/ NextCell

\* the cells of the notebook in their order: download, trim, load, index,
\* second chunking pass, and calls of get_retrieved_nodes without reranker
IngestSpec == Init /\ [][IngestNext]_vars

\* ------------------------------------------------ generation at temperature 0
InitDet == InitState /\ llm \in Models /\ notebook \in Notebooks

\* the calls the notebooks make, with some of the argument values they use
DetTopKs == {2, DefaultVectorTopK}
DetTopNs == {1, DefaultRerankerTopN}

NextDet ==
    \/ \E n \in IndexSizes : BuildIndex(n)
    \/ \E q \in Queries, k \in DetTopKs, n \in DetTopNs, wr \in BOOLEAN :
           Call(q, k, n, wr)
    \/ IssueEmbedding
    \/ Retrieve
    \/ RetrieveFails
    \/ IssueGeneration
    \/ RerankBatch(LLMAnswer(llm, query_str, BatchOf(candidates, batch_start)))
    \/ RerankBatchFails
    \/ RerankReturn
    \/ Remember
    \/ NextCell

\* the retrieval with a generation model that answers as a function of the
\* prompt
SpecDet == InitDet /\ [][NextDet]_vars

Reranked == pc = "returned" /\ with_reranker
VectorOnly == pc = "returned" /\ ~with_reranker

NodesOf(xs) == {xs[i].node : i \in 1..Len(xs)}
NonIncreasing(xs) == \A i, j \in 1..Len(xs) : i < j => xs[i].score >= xs[j].score
NoRepeat(xs) == \A i, j \in 1..Len(xs) : i # j => xs[i].node # xs[j].node
IndexedChunks == {index[i] : i \in 1..Len(index)}

\* C1: every chunk a reranked call returns is one of the candidates the
\* vector retriever returned in that call, and no candidate is returned twice.
C1_NarrowsAndReorders ==
    Reranked => /\ NodesOf(retrieved_nodes) \subseteq NodesOf(candidates)
                /\ NoRepeat(retrieved_nodes)

\* C2: the length of the list a reranked call returns is
\* min(reranker_top_n, number of candidates judged relevant) and is never
\* greater than the number of candidates passed into the reranker.
C2_OutputSize ==
    Reranked => /\ Len(retrieved_nodes) =
                       Min(reranker_top_n, Cardinality(NodesOf(initial_results)))
                /\ Len(retrieved_nodes) <= Len(candidates)

\* C3: whenever a call reranks, the candidate list has vector_top_k entries
\* and reranker_top_n <= vector_top_k.
C3_CandidateSetSize ==
    (pc \in {"rerank", "generating"}) => /\ Len(candidates) = vector_top_k
                       /\ reranker_top_n <= vector_top_k

\* C4: without the reranker a call with vector_top_k = K >= 0 returns at
\* most K chunks, with non-increasing scores.
C4_AtMostKSorted ==
    VectorOnly => /\ Len(retrieved_nodes) <= vector_top_k
                  /\ NonIncreasing(retrieved_nodes)

\* C5: the vector stage returns the K most similar chunks of the index, each
\* with its similarity: no chunk left out is strictly more similar than a
\* returned one, and an index of at least K chunks yields exactly K.
C5_TopKBySimilarity ==
    (pc \in {"rerank", "generating", "returned"}) =>
        /\ NodesOf(candidates) \subseteq IndexedChunks
        /\ NoRepeat(candidates)
        /\ \A i \in 1..Len(candidates) :
               candidates[i].score = Similarity(query_str, candidates[i].node)
        /\ \A c \in IndexedChunks \ NodesOf(candidates) :
               \A i \in 1..Len(candidates) :
                   Similarity(query_str, c) <= candidates[i].score
        /\ (Len(index) >= vector_top_k => Len(candidates) = vector_top_k)
\* the positions of xs that an injective map f of 1..Len(ys) selects
Injections(m, n) == {f \in [1..m -> 1..n] : \A i, j \in 1..m : i # j => f[i] # f[j]}

\* C6: the reranker's result is the merged results of all batches sorted by
\* descending score and cut to reranker_top_n: scores never increase along
\* the list, every returned entry is one of the merged entries, and no entry
\* left out scores higher than a returned one, whichever batch it came from.
C6_MergedSortedTruncated ==
    Reranked =>
        /\ NonIncreasing(retrieved_nodes)
        /\ Len(retrieved_nodes) = Min(reranker_top_n, Len(initial_results))
        /\ \E f \in Injections(Len(retrieved_nodes), Len(initial_results)) :
               /\ \A i \in 1..Len(retrieved_nodes) :
                      initial_results[f[i]] = retrieved_nodes[i]
               /\ \A k \in 1..Len(initial_results) :
                      (\A i \in 1..Len(retrieved_nodes) : f[i] # k) =>
                          \A i \in 1..Len(retrieved_nodes) :
                              retrieved_nodes[i].score >= initial_results[k].score

\* a chunk of the second batch outscores one of the first batch and is the
\* one kept by reranker_top_n = 1
C6_LaterBatchKept ==
    /\ Reranked
    /\ Len(batches) = 2
    /\ reranker_top_n = 1
    /\ Len(initial_results) = 2
    /\ initial_results[1].node \in NodesOf(batches[1])
    /\ initial_results[2].node \in NodesOf(batches[2])
    /\ initial_results[2].score > initial_results[1].score
    /\ retrieved_nodes = << initial_results[2] >>

RECURSIVE Flatten(_)
Flatten(bs) == IF bs = << >> THEN << >> ELSE Head(bs) \o Flatten(Tail(bs))

\* C7: the N candidates are cut in order into consecutive batches of at most
\* 5 and one generation request is issued per batch: at every moment the
\* batches requested so far, put end to end, are the first candidates, in
\* order; a finished rerank has issued ceil(N/5) requests (none for N = 0)
\* and its batches cover the candidate list, each candidate once.
C7_OneRequestPerBatch ==
    /\ llm_requests = Len(batches)
    /\ \A b \in 1..Len(batches) :
           Len(batches[b]) >= 1 /\ Len(batches[b]) <= choice_batch_size
    /\ Flatten(batches) =
           SubSeq(candidates, 1, Min(choice_batch_size * llm_requests, Len(candidates)))
    /\ llm_requests <=
           (Len(candidates) + choice_batch_size - 1) \div choice_batch_size
    /\ Reranked =>
           /\ llm_requests =
                  (Len(candidates) + choice_batch_size - 1) \div choice_batch_size
           /\ Flatten(batches) = candidates
           /\ NoRepeat(candidates)

\* a rerank over more candidates than one batch holds has finished
C7_TwoBatches ==
    /\ Reranked
    /\ Len(candidates) > choice_batch_size
    /\ llm_requests = 2
    /\ Len(batches[1]) = choice_batch_size

\* C8: every result of a reranked call carries an integer score in 1..10
\* assigned by the model (100, 200, .. 1000 in hundredths), never the
\* similarity score and never a value outside that range.
C8_ScoreInRange ==
    Reranked => \A i \in 1..Len(retrieved_nodes) :
                    retrieved_nodes[i].score \in {100 * r : r \in 1..10}

\* C9: without the reranker, over an index of at least vector_top_k chunks,
\* exactly vector_top_k scored chunks come back in descending similarity.
C9_ExactlyKWithoutReranker ==
    (VectorOnly /\ Len(index) >= vector_top_k) =>
        /\ Len(retrieved_nodes) = vector_top_k
        /\ NonIncreasing(retrieved_nodes)

C11_SameResultOnRepeat ==
    (pc = "returned" /\ ref.set /\ ref.repeated /\ ref.args = args) =>
        retrieved_nodes = ref.result

\* a reranked call of two batches is repeated after a call with other
\* arguments
C11_RepeatAfterOther ==
    /\ pc = "returned" /\ with_reranker
    /\ ref.set /\ ref.other /\ ref.repeated /\ ref.args = args
    /\ llm_requests = 2
    /\ Len(retrieved_nodes) >= 2

\* ------------------------------------------------------------------- C12
\* C12 as stated: a call on an empty index ends in an error, and a call
\* whose embedding request fails ends in the error of the service.
C12_EmptyIndexFails ==
    /\ (index = << >> /\ pc \in {"rerank", "returned", "failed"}) =>
           (pc = "failed" /\ error # "none")
    /\ (pc = "failed" /\ llm_requests = 0) => error = "ServiceError"

\* C12 as amended: on an empty index the vector stage returns the empty list
\* and no error; a call fails before reranking only by the failure of its
\* one embedding request, which is not sent again, and then holds no list.
C12_EmptyIndexReturnsEmpty ==
    /\ (index = << >> /\ pc \in {"rerank", "returned"}) =>
           (candidates = << >> /\ error = "none")
    /\ (index = << >> /\ pc = "failed") =>
           (error = "ServiceError" /\ llm_requests = 0)
    /\ (pc = "failed" /\ llm_requests = 0) =>
           /\ error = "ServiceError"
           /\ candidates = << >> /\ retrieved_nodes = << >>
    /\ embed_requests <= 1
    /\ (pc \notin {"ingest", "idle", "retrieve"}) => embed_requests = 1

\* a call without reranker has returned from an empty index
C12_EmptyIndexReturned ==
    /\ VectorOnly /\ index = << >>
    /\ embed_requests = 1 /\ error = "none"
    /\ retrieved_nodes = << >>

\* ------------------------------------------------------------------- C13
\* C13: when the vector stage yields no chunk the call returns the empty
\* list and raises nothing, without and with reranker; the reranker is given
\* the empty list and sends no request.
C13_EmptyResultIsValid ==
    /\ (candidates = << >> /\ pc \in {"rerank", "generating", "returned"}) =>
           /\ pc # "generating"
           /\ error = "none" /\ llm_requests = 0
           /\ (pc = "returned") => retrieved_nodes = << >>
    /\ (llm_requests > 0) => candidates # << >>

\* a reranked call has returned the empty list from an empty index
C13_EmptyReranked ==
    /\ Reranked /\ index = << >> /\ reranker_top_n > 0
    /\ candidates = << >> /\ retrieved_nodes = << >>
    /\ embed_requests = 1

\* ------------------------------------------------------------------- C14
\* C14: a failed embedding request or a failed generation request of a batch
\* ends the call with the error: nothing is returned, each request is sent
\* once, and the batches after the failing one are not requested.
C14_FailureIsFatal ==
    /\ [](/\ (error # "none") <=> (pc = "failed")
          /\ embed_requests <= 1
          /\ llm_requests = Len(batches)
          /\ \A i, j \in 1..Len(batches) : i < j => batches[i] # batches[j]
          /\ (pc = "failed" /\ error = "ServiceError") =>
                 IF llm_requests = 0
                 THEN embed_requests = 1 /\ candidates = << >>
                 ELSE /\ batch_start = choice_batch_size * (llm_requests - 1)
                      /\ Len(batches[llm_requests]) >= 1)
    /\ [][(pc = "failed") =>
              /\ pc' = "idle"
              /\ embed_requests' <= embed_requests
              /\ llm_requests' <= llm_requests]_vars

\* the request of the first of two batches has failed
C14_SecondBatchNeverAsked ==
    /\ pc = "failed" /\ error = "ServiceError"
    /\ Len(candidates) > choice_batch_size
    /\ embed_requests = 1 /\ llm_requests = 1

\* ------------------------------------------------------------------- C15
\* text two chunks of one page share: the sentences from the first of the
\* later chunk to the last of the earlier one
SharedChars(c, d) ==
    SumChars(PageText(docs[c.doc].file, docs[c.doc].page), d.first, c.last)

\* C15: two adjacent chunks of a document overlap by the announced number of
\* characters (the whole later chunk when it is shorter than that).
C15_FixedOverlap ==
    \A i \in 1..(Len(chunks) - 1) :
        (chunks[i].doc = chunks[i + 1].doc) =>
            SharedChars(chunks[i], chunks[i + 1]) =
                Min(DocumentedOverlapChars, chunks[i + 1].chars)

\* ------------------------------------------------------------------- C16
\* C16: every chunk of the index is a run of text of one document and has at
\* most the announced 1000 characters.
C16_ChunksWithinDocumentedSize ==
    \A i \in 1..Len(chunks) :
        /\ chunks[i].doc \in 1..Len(docs)
        /\ 1 <= chunks[i].first /\ chunks[i].first <= chunks[i].last
        /\ chunks[i].last <=
               Len(PageText(docs[chunks[i].doc].file, docs[chunks[i].doc].page))
        /\ chunks[i].chars <= DocumentedChunkChars

\* ------------------------------------------------------------------- C17
HasDeclared(m, f) ==
    /\ "year" \in DOMAIN m /\ "source" \in DOMAIN m
    /\ m.year = metadata[f].year /\ m.source = metadata[f].source

\* C17: every document of docs carries the year and source the notebook
\* declares for its file, and every chunk has the metadata of its document.
C17_DeclaredMetadata ==
    /\ \A i \in 1..Len(docs) : HasDeclared(docs[i].metadata, docs[i].file)
    /\ \A i \in 1..Len(chunks) :
           chunks[i].metadata = docs[chunks[i].doc].metadata

\* ------------------------------------------------------------------- C18
\* C18: every document of docs has the name of its file without ".pdf" as
\* identifier.
C18_IdFromFileName ==
    \A i \in 1..Len(docs) :
        docs[i].doc_id = NamedId(<< filenames[docs[i].file][1] >>)

\* ------------------------------------------------------------------- C19
\* C19: after the download and one run of the trimming cell every file holds
\* its pages but the last three, in order, and no page when it had three
\* pages or fewer.
C19_TrimDropsLastThree ==
    (trim_runs = 1) =>
        /\ Len(files) = Len(filenames)
        /\ stage # "download"
        /\ \A f \in 1..Len(files) :
               files[f] = [i \in 1..Max(0, fetched[f] - 3) |-> i]

\* trimmed once: a short letter is left without pages, a long one keeps its
\* first pages
C19_ShortAndLong ==
    /\ trim_runs = 1 /\ stage = "trim"
    /\ \E f \in 1..Len(files) : fetched[f] <= 3 /\ files[f] = << >>
    /\ \E f \in 1..Len(files) :
           fetched[f] > 4 /\ Len(files[f]) = fetched[f] - 3

\* ------------------------------------------------------------------- C20
\* C20: within a call at most one request is outstanding: the embedding
\* request is answered before a generation request is sent, and the request
\* of a batch is sent only when the answers of all earlier batches are in.
C20_OneRequestAtATime ==
    /\ [](/\ outstanding \in {0, 1}
          /\ (outstanding = 1) <=> (pc \in {"embedding", "generating"})
          /\ (llm_requests > 0) =>
                 (embed_requests = 1 /\ pc \notin {"retrieve", "embedding"}))
    /\ [][(embed_requests' > embed_requests \/ llm_requests' > llm_requests) =>
              /\ outstanding = 0 /\ outstanding' = 1
              /\ (llm_requests' > llm_requests) =>
                     batch_start = choice_batch_size * llm_requests]_vars

\* the request of the second batch is outstanding
C20_SecondRequestOutstanding ==
    /\ pc = "generating" /\ outstanding = 1
    /\ embed_requests = 1 /\ llm_requests = 2
    /\ initial_results # << >>

\* ------------------------------------------------------------------- C21
\* C21: once the index is built no step of a call, returning or failing,
\* with or without reranker, changes the chunks of the index, and the scores
\* of the candidates are those of the indexed chunks.
C21_IndexReadOnly ==
    /\ [][(pc # "ingest") => (index' = index /\ chunks' = chunks)]_vars
    /\ [](\A i \in 1..Len(candidates) :
              /\ candidates[i].node \in IndexedChunks
              /\ candidates[i].score = Similarity(query_str, candidates[i].node))

\* a reranked call has failed in its second batch, on the full index
C21_FailedOnFullIndex ==
    /\ pc = "failed" /\ with_reranker
    /\ llm_requests = 2 /\ initial_results # << >>
    /\ index = [i \in 1..NumChunks |-> i]

\* ------------------------------------------------------------------- C24
\* C24: a call without reranker sends no generation request and returns the
\* list of the retriever as it is, whatever reranker_top_n; the prompt the
\* Claude notebook passes to the retriever is not kept by it.
C24_VectorListUnchanged ==
    /\ (~with_reranker) =>
           /\ llm_requests = 0 /\ batches = << >> /\ prompt_tmpl = "none"
           /\ pc \notin {"rerank", "generating"}
    /\ VectorOnly =>
           /\ retrieved_nodes = candidates
           /\ retrieved_nodes = VectorRetrieve(index, query_str, vector_top_k)
           /\ RetrieverTemplate(RetrieverKwargs(notebook)) = "none"

\* the Claude notebook returns more chunks than reranker_top_n
C24_TopNIgnored ==
    /\ VectorOnly /\ notebook = "claude"
    /\ "choice_select_prompt" \in DOMAIN RetrieverKwargs(notebook)
    /\ embed_requests = 1
    /\ Len(retrieved_nodes) > reranker_top_n

\* ------------------------------------------------------------------- C22
\* an entry of an answer that is malformed for a batch of len nodes: its
\* score cannot be parsed, or its document number is outside 1..len
Malformed(line, len) ==
    \/ line.kind = "badrel"
    \/ line.kind = "pair" /\ (line.doc < 1 \/ line.doc > len)

\* the batches of this call whose answers were taken without error
Accepted == 1..(batch_start \div choice_batch_size)

\* C22: a batch whose answer has a malformed entry ends the call in an
\* error; no such answer is taken.
C22_MalformedIsError ==
    \A j \in Accepted :
        LET answer == LLMAnswer(llm, query_str, batches[j])
        IN  \A i \in 1..Len(answer) : ~Malformed(answer[i], Len(batches[j]))

\* ------------------------------------------------------------------- C23
\* C23: a line that cannot be parsed is skipped and the call goes on: no
\* call ends in the error of the parser.
C23_UnparsableLineSkipped == error # "ValueError"

\* ------------------------------------------------------------------- C28
\* C28 as stated: in each notebook the reranker is constructed with a
\* template of the notebook, and sends its requests with it.
C28_TemplatePerModel ==
    (llm_requests > 0) =>
        /\ "choice_select_prompt" \in DOMAIN RerankerKwargs(notebook)
        /\ prompt_tmpl = RerankerKwargs(notebook).choice_select_prompt

\* C28 as amended: the requests of the Claude notebook carry the template
\* the notebook defines, those of the Titan notebook, which passes none, the
\* default template of the library; no request carries another template
\* and the two are distinct.
C28_TemplateInEffect ==
    /\ (llm_requests = 0) => prompt_tmpl = "none"
    /\ (llm_requests > 0) =>
           prompt_tmpl = (IF notebook = "claude"
                          THEN "CLAUDE_CHOICE_SELECT_PROMPT_TMPL"
                          ELSE "DEFAULT_CHOICE_SELECT_PROMPT")
    /\ ("choice_select_prompt" \in DOMAIN RerankerKwargs(notebook))
           <=> (notebook = "claude")

\* a request of the Titan notebook is outstanding
C28_TitanRequest ==
    /\ notebook = "titan" /\ pc = "generating"
    /\ prompt_tmpl = "DEFAULT_CHOICE_SELECT_PROMPT"
\* ------------------------------------------------------------------- C25
\* C25: a run of the download cell asks for the files in the order of
\* filenames, each at most once; every file it has passed is stored as it was
\* downloaded; when a download fails the cell ends with the error, the files
\* before it stay as they were stored and no later file is asked for.
C25_DownloadInOrderNoRetry ==
    /\ requests = [i \in 1..Len(requests) |-> i]
    /\ Len(requests) <= Len(filenames)
    /\ Len(requests) = dl_idx + (IF ingest_error = "DownloadError" THEN 1 ELSE 0)
    /\ (ingest_error = "DownloadError") => (stage = "failed")
    /\ (stage = "download" \/ ingest_error = "DownloadError") =>
           \A f \in 1..dl_idx :
               /\ fetched[f] >= 1
               /\ files[f] = [i \in 1..fetched[f] |-> i]

\* the download of the third file failed: two files are stored, three were
\* asked for
C25_ThirdDownloadFailed ==
    /\ ingest_error = "DownloadError"
    /\ requests = << 1, 2, 3 >>
    /\ dl_idx = 2 /\ Len(files) >= 2

\* ------------------------------------------------------------------- C26
\* the first pages of a file, all but the last three
AllButLastThree(pages) == [i \in 1..Max(0, Len(pages) - 3) |-> pages[i]]

\* C26: trimming overwrites the files in place and is not idempotent: a
\* letter downloaded with n pages and trimmed t times since holds its first
\* max(0, n - 3t) pages; a run of the trimming cell takes three more pages
\* from every PDF of ./data, one of the letters or not, and changes no file
\* that is not a PDF.
C26_TrimNotIdempotent ==
    /\ [](\A f \in 1..Len(files) :
              files[f] = [i \in 1..Max(0, fetched[f] - 3 * trims[f]) |-> i])
    /\ [][(trim_runs' = trim_runs + 1) =>
              /\ \A f \in 1..Len(files) : files'[f] = AllButLastThree(files[f])
              /\ other_file' = IF MatchesGlob(other_file)
                               THEN [other_file EXCEPT
                                        !.pages = AllButLastThree(@)]
                               ELSE other_file]_vars

\* a letter and another PDF of ./data have lost six pages in two runs
C26_TrimmedTwice ==
    /\ trim_runs = 2
    /\ \E f \in 1..Len(files) :
           /\ fetched[f] = MaxPages /\ trims[f] = 2
           /\ Len(files[f]) = MaxPages - 6 /\ Len(files[f]) >= 1
    /\ MatchesGlob(other_file)
    /\ Len(other_file.pages) = MaxPages - 6

\* ------------------------------------------------------------------- C27
\* C27: the cells run in their order (download, trim, load and chunk, embed
\* and index) and a query runs only when the index is built; so every chunk
\* of the index comes from a page that is not one of the last three pages of
\* its file as downloaded, and has its embedding from the embedding model
\* that embeds the queries.
C27_IngestionBeforeQueries ==
    /\ (pc # "ingest") => (stage = "done")
    /\ (stage = "done") =>
           /\ trim_runs >= 1 /\ dl_idx = Len(filenames)
           /\ loaded = Len(filenames)
           /\ index = [i \in 1..Len(chunks) |-> i]
    /\ \A i \in 1..Len(chunks) :
           /\ chunks[i].doc \in 1..Len(docs)
           /\ docs[chunks[i].doc].page <= fetched[docs[chunks[i].doc].file] - 3
           /\ chunks[i].embedded_by = QueryEmbedModel

\* a call has returned chunks, among them one of the last page a trimmed
\* letter has kept
C27_QueryOnTrimmedIndex ==
    /\ pc = "returned" /\ stage = "done"
    /\ \E j \in 1..Len(retrieved_nodes) :
           LET d == docs[chunks[retrieved_nodes[j].node].doc]
           IN  fetched[d.file] = MaxPages /\ d.page = MaxPages - 3

\* ------------------------------------------------------------------- C29
\* the same run of text of the same document
SameText(a, b) == a.doc = b.doc /\ a.first = b.first /\ a.last = b.last

\* C29: once the index is built its chunks and their identifiers do not
\* change; a chunk that two calls return has one identifier; the second
\* chunking pass makes new nodes with identifiers of their own in a docstore
\* of its own, and a call repeated after it returns what it returned before.
C29_ChunkIdentityStable ==
    /\ [][(stage = "done") => (chunks' = chunks /\ index' = index)]_vars
    /\ [](/\ \A i \in 1..Len(nodes) : \A j \in 1..Len(chunks) :
                 nodes[i].node_id # chunks[j].node_id
          /\ \A i, j \in 1..Len(chunks) :
                 (chunks[i].node_id = chunks[j].node_id) => (i = j)
          /\ docstore = nodes)
    /\ []((pc = "returned" /\ ref.set) =>
             /\ \A j \in 1..Len(retrieved_nodes) : \A k \in 1..Len(ref.result) :
                    SameText(chunks[retrieved_nodes[j].node],
                             chunks[ref.result[k].node]) =>
                        chunks[retrieved_nodes[j].node].node_id =
                            chunks[ref.result[k].node].node_id
             /\ (args = ref.args) => (retrieved_nodes = ref.result))

\* a call made before the second chunking pass is repeated after it
C29_RepeatedAfterSecondPass ==
    /\ pc = "returned" /\ ref.set /\ ref.repeated
    /\ args = ref.args
    /\ nodes # << >> /\ docstore = nodes
    /\ Len(retrieved_nodes) = IngestTopK

====
